---- MODULE Spec2Model ----
(***************************************************************************)
(* A model of dc_schema: the compiler from dataclass types to JSON Schema  *)
(* documents (src/dc_schema/__init__.py).  Every get_schema call builds a  *)
(* _GetSchema object and runs the recursive descent get_dc_schema ->       *)
(* create_dc_schema -> get_field_schema -> get_*_schema on it.  The        *)
(* descent is modelled as a machine with an explicit call stack, one such  *)
(* machine per call, so that calls may interleave and a descent that never *)
(* returns shows as a stack that grows to the interpreter's limit.         *)
(***************************************************************************)
EXTENDS Integers, Sequences, FiniteSets, TLC

\* The get_schema calls in flight, each on its own _GetSchema object.
Sessions == {"s1", "s2"}

\* The interpreter's recursion limit, counted in frames of the model's stack.
MaxDepth == 12

(***************************************************************************)
(* Python values.  Every value carries its type tag, so that None, False,  *)
(* 0 and MISSING stay distinct.                                            *)
(***************************************************************************)
None == [t |-> "none"]
MISSING == [t |-> "MISSING"]
PyStr(x) == [t |-> "str", s |-> x]
PyInt(n) == [t |-> "int", i |-> n]
PyFloat(x) == [t |-> "float", f |-> x]
PyBool(b) == [t |-> "bool", b |-> b]
PyTuple(xs) == [t |-> "tuple", items |-> xs]
PyList(xs) == [t |-> "list", items |-> xs]
Callable == [t |-> "callable"]
\* a datetime.date or datetime.datetime object
PyDate(cls, x) == [t |-> cls, iso |-> x]
Member(cls, name, value) == [t |-> "member", cls |-> cls, name |-> name, value |-> value]

\* {**a, **b}: the keys of both, b's value where both have the key.
Merge(a, b) == b @@ a

(***************************************************************************)
(* SchemaAnnotation                                                        *)
(***************************************************************************)
AnnFields ==
    {"title", "description", "examples", "deprecated", "min_length",
     "max_length", "pattern", "format", "minimum", "maximum",
     "exclusive_minimum", "exclusive_maximum", "multiple_of", "min_items",
     "max_items", "unique_items"}

\* SchemaAnnotation(**kwargs): every field not given is None.
SchemaAnnotation(kwargs) ==
    [f \in AnnFields |-> IF f \in DOMAIN kwargs THEN kwargs[f] ELSE None]

key_map(k) ==
    CASE k = "min_length" -> "minLength"
      [] k = "max_length" -> "maxLength"
      [] k = "exclusive_minimum" -> "exclusiveMinimum"
      [] k = "exclusive_maximum" -> "exclusiveMaximum"
      [] k = "multiple_of" -> "multipleOf"
      [] k = "min_items" -> "minItems"
      [] k = "max_items" -> "maxItems"
      [] k = "unique_items" -> "uniqueItems"
      [] OTHER -> k

\* SchemaAnnotation.schema()
AnnotationSchema(a) ==
    LET set == {k \in AnnFields : a[k] # None}
    IN  [jk \in {key_map(k) : k \in set} |->
            a[CHOOSE k \in set : key_map(k) = jk]]

(***************************************************************************)
(* Type descriptors, as typing.get_origin / get_args and the class         *)
(* hierarchy show them to the compiler.                                    *)
(***************************************************************************)
Dc(id) == [k |-> "dataclass", id |-> id]
Cls(id) == [k |-> "class", id |-> id]
Union(args) == [k |-> "Union", args |-> args]
Literal(args) == [k |-> "Literal", args |-> args]
\* typing.Annotated[base, *meta]
Annotated(base, meta) == [k |-> "Annotated", base |-> base, meta |-> meta]
\* dict, list, tuple, set: bare (no args) or parametrised
Generic(origin, args) == [k |-> "generic", origin |-> origin, args |-> args]
Ellipsis == [k |-> "Ellipsis"]
Optional(x) == Union(<<x, Cls("NoneType")>>)
\* typing.Any: no origin, not a class
TypingAny == [k |-> "Any"]

\* The classes a plain class is a subclass of (issubclass), itself included.
Bases(id) ==
    CASE id = "bool" -> {"bool", "int", "Number"}
      [] id = "int" -> {"int", "Number"}
      [] id = "float" -> {"float", "Number"}
      [] id = "datetime" -> {"datetime", "date"}
      [] id = "Hobby" -> {"Hobby", "Enum"}
      [] id = "Level" -> {"Level", "int", "Number", "Enum"}
      [] id = "Tag" -> {"Tag", "Enum"}
      [] OTHER -> {id}

\* [v for v in type_]: the members of an enum class, in declaration order.
EnumMembers(id) ==
    CASE id = "Hobby" ->
            << Member("Hobby", "CHESS", PyStr("chess")),
               Member("Hobby", "SOCCER", PyStr("soccer")) >>
      [] id = "Level" ->
            << Member("Level", "LOW", PyInt(1)),
               Member("Level", "HIGH", PyInt(2)) >>
      [] id = "Tag" ->
            << Member("Tag", "NEW", PyStr("new")),
               Member("Tag", "OLD", PyStr("old")) >>
      [] OTHER -> << >>

IsSubclass(type_, base) == type_.k = "class" /\ base \in Bases(type_.id)
IsDataclass(type_) == type_.k = "dataclass"
GetOrigin(type_) ==
    IF type_.k \in {"Union", "Literal", "Annotated"} THEN type_.k
    ELSE IF type_.k = "generic" THEN type_.origin
    ELSE "None"

(***************************************************************************)
(* The dataclasses handed to get_schema: for each class its __name__, the  *)
(* annotation of its SchemaConfig (absent: no SchemaConfig) and            *)
(* dataclasses.fields with the resolved type hints.                        *)
(***************************************************************************)
Field(name, type, default, default_factory) ==
    [name |-> name, type |-> type, default |-> default,
     default_factory |-> default_factory]
\* a field declared without default and without default_factory
Plain(name, type) == Field(name, type, MISSING, MISSING)
Class(name, config, fields) ==
    [name |-> name, config |-> config, fields |-> fields]
NoConfig == [t |-> "absent"]

int == Cls("int")
str == Cls("str")
float == Cls("float")
NoneType == Cls("NoneType")

Described(text) == SchemaAnnotation("description" :> PyStr(text))
Titled(text) == SchemaAnnotation("title" :> PyStr(text))

Dataclasses ==
    [ DcPrimitives |-> Class("DcPrimitives", NoConfig,
        << Plain("b", Cls("bool")), Plain("i", int), Plain("f", float),
           Plain("s", str) >>),
      DcOptional |-> Class("DcOptional", NoConfig,
        << Field("a", int, PyInt(42), MISSING),
           Field("c", int, MISSING, Callable),
           Field("d", str, PyStr("foo"), MISSING),
           Field("f", NoneType, None, MISSING),
           Field("g", Optional(int), None, MISSING) >>),
      DcNone |-> Class("DcNone", NoConfig,
        << Plain("a", NoneType), Plain("b", Optional(int)),
           Field("c", int, PyInt(0), MISSING) >>),
      DcUnion |-> Class("DcUnion", NoConfig,
        << Plain("a", Union(<<int, str>>)),
           Field("age", Annotated(Union(<<int, float>>),
                                  <<Described("age in years")>>),
                 PyInt(42), MISSING),
           Plain("m", Union(<<Annotated(str, <<Titled("M")>>), Dc("DcRefsChild"),
                              Cls("bool")>>)),
           Plain("n", Annotated(Dc("DcRefsChild"), <<Titled("Again")>>)) >>),
      DcRefs |-> Class("DcRefs", NoConfig,
        << Plain("a", Dc("DcRefsChild")),
           Plain("b", Generic("list", <<Dc("DcRefsChild")>>)) >>),
      DcRefsChild |-> Class("DcRefsChild", NoConfig, << Plain("c", str) >>),
      DcRefsSelf |-> Class("DcRefsSelf", NoConfig,
        << Plain("a", str), Plain("b", Optional(Dc("DcRefsSelf"))),
           Plain("c", Generic("list", <<Dc("DcRefsSelf")>>)) >>),
      DcAnnotatedAuthor |-> Class("DcAnnotatedAuthor",
        SchemaAnnotation("deprecated" :> PyBool(TRUE)),
        << Plain("name", Annotated(str, <<Described("the name of the author")>>)),
           Plain("first", Annotated(Dc("DcAnnotatedBook"), <<Titled("First")>>)),
           Plain("books", Annotated(Generic("list", <<Dc("DcAnnotatedBook")>>),
                                    <<Described("all the books")>>)),
           Plain("hobby", Annotated(Cls("Hobby"),
                            <<SchemaAnnotation("deprecated" :> PyBool(TRUE))>>))
        >>),
      DcAnnotatedBook |-> Class("DcAnnotatedBook", NoConfig,
        << Plain("title", Annotated(str, <<Titled("Title")>>)),
           Field("by", Annotated(Optional(Dc("DcAnnotatedAuthor")),
                                 <<Described("the author")>>), None, MISSING),
           Plain("editor", Annotated(Dc("DcAnnotatedAuthor"),
                                     <<Titled("Editor")>>)) >>),
      DcContainers |-> Class("DcContainers", NoConfig,
        << Plain("a", Generic("dict", <<str, int>>)),
           Plain("b", Generic("dict", << >>)),
           Plain("c", Generic("list", <<Cls("bool")>>)),
           Field("d", Generic("list", << >>), MISSING, Callable),
           Plain("e", Annotated(Generic("dict", << >>),
                        <<SchemaAnnotation("min_items" :> PyInt(1))>>)) >>),
      DcTuple |-> Class("DcTuple", NoConfig,
        << Field("a", Generic("tuple", <<int, float>>),
                 PyTuple(<<PyInt(1), PyFloat("1.1")>>), MISSING),
           Plain("b", Generic("tuple", <<int, Ellipsis>>)),
           Plain("c", Generic("tuple", << >>)),
           Plain("d", Annotated(Generic("tuple", <<str, int, Dc("DcRefsChild")>>),
                                <<Described("a triple")>>)),
           Plain("e", Annotated(Generic("tuple", <<int, int>>),
                        <<SchemaAnnotation("min_items" :> PyInt(1))>>)),
           Plain("f", Annotated(Generic("tuple", <<str, Ellipsis>>),
                        <<SchemaAnnotation("max_items" :> PyInt(3))>>)) >>),
      DcSet |-> Class("DcSet", NoConfig,
        << Plain("a", Generic("set", <<int>>)),
           Plain("b", Generic("set", << >>)),
           Plain("c", Annotated(Generic("set", <<str>>),
                                <<Described("tags")>>)),
           Plain("d", Annotated(Generic("set", <<int>>),
                        <<SchemaAnnotation("unique_items" :> PyBool(FALSE))>>)) >>),
      DcMisc |-> Class("DcMisc", NoConfig,
        << Plain("a", Literal(<<PyInt(1), PyStr("two"), None>>)),
           Field("h", Cls("Hobby"), Member("Hobby", "SOCCER", PyStr("soccer")),
                 MISSING),
           Plain("t", Cls("datetime")), Plain("u", Cls("date")),
           Plain("n", Cls("Level")) >>),
      DcLevel |-> Class("DcLevel", NoConfig,
        << Plain("level", Cls("Level")),
           Plain("levels", Generic("list", <<Cls("Level")>>)) >>),
      Holder |-> Class("Holder", NoConfig, << Plain("item", Dc("Linked")) >>),
      Linked |-> Class("Linked", NoConfig,
        << Plain("value", int), Plain("next", Optional(Dc("Linked"))) >>),
      Game |-> Class("Game", NoConfig, << Plain("first", Dc("Ping")) >>),
      Ping |-> Class("Ping", NoConfig, << Plain("pong", Dc("Pong")) >>),
      Pong |-> Class("Pong", NoConfig, << Plain("ping", Dc("Ping")) >>),
      DcBytes |-> Class("DcBytes", NoConfig,
        << Plain("ok", int), Plain("raw", Cls("bytes")) >>),
      DcDeep |-> Class("DcDeep", NoConfig,
        << Plain("a", Dc("DcRefsChild")),
           Plain("b", Generic("list", <<Optional(Dc("DcBytes"))>>)) >>),
      DcBadKey |-> Class("DcBadKey", NoConfig,
        << Plain("ok", str), Plain("a", Generic("dict", <<int, str>>)) >>),
      DcBadAnnotated |-> Class("DcBadAnnotated", NoConfig,
        << Plain("a", Annotated(int, <<Described("x"), Titled("y")>>)) >>),
      DcDates |-> Class("DcDates", NoConfig,
        << Field("b", Cls("bool"), PyBool(FALSE), MISSING),
           Field("f", float, PyFloat("1.5"), MISSING),
           Field("t", Cls("datetime"),
                 PyDate("datetime", "2020-01-01T00:00:00"), MISSING),
           Field("u", Annotated(Cls("date"), <<Described("a day")>>),
                 PyDate("date", "2020-01-01"), MISSING),
           Plain("v", Cls("date")) >>),
      DcShelf |-> Class("DcShelf", NoConfig,
        << Plain("box", Dc("Outer")), Plain("again", Dc("Inner")) >>),
      Outer |-> Class("Item", NoConfig,
        << Plain("inner", Dc("Inner")), Plain("n", int) >>),
      Inner |-> Class("Item", NoConfig, << Plain("v", str) >>),
      DcTagged |-> Class("DcTagged", NoConfig,
        << Plain("holder", Dc("TagHolder")), Plain("tag", Cls("Tag")) >>),
      TagHolder |-> Class("Tag", NoConfig, << Plain("tag", Cls("Tag")) >>),
      DcAny |-> Class("DcAny", NoConfig,
        << Plain("a", Generic("tuple", <<TypingAny, Ellipsis>>)) >>) ]

DcIds == DOMAIN Dataclasses
DcName(id) == Dataclasses[id].name
DcFields(id) == Dataclasses[id].fields

(***************************************************************************)
(* The fragments the handlers build.  A fragment maps JSON keys to Python  *)
(* values, lists of values or fragments, or fragments.                     *)
(***************************************************************************)
SchemaUrl == PyStr("https://json-schema.org/draft/2020-12/schema")
EmptyDict == << >>
NoAnnotation == SchemaAnnotation(EmptyDict)

Ref(target) == "allOf" :> << "$ref" :> PyStr(target) >>

\* a bare reference instead of the allOf wrapper
RootRefBare(annotation) ==
    Merge("$ref" :> PyStr("#"), AnnotationSchema(annotation))

\* get_dc_schema, the root met again
RootRef(annotation) == Merge(Ref("#"), AnnotationSchema(annotation))

\* the reference without the metadata given with it
DefsRefNoMetadata(name, annotation) == Ref("#/$defs/" \o name)

\* get_dc_schema, a dataclass that is not the root
DefsRef(name, annotation) ==
    Merge(Ref("#/$defs/" \o name), AnnotationSchema(annotation))

\* the registry is never consulted
NotInDefsEver(name, registry) == TRUE

\* dc.__name__ not in self.defs
NotInDefs(name, registry) == name \notin DOMAIN registry

\* the assignment lost
StoreDropped(registry, name, schema) == registry

\* self.defs[name] = schema
Store(registry, name, schema) == (name :> schema) @@ registry

\* create_dc_schema: the schema before the loop over the fields
CreateDcSchemaInit(dc) ==
    LET annotation == IF Dataclasses[dc].config = NoConfig
                      THEN NoAnnotation ELSE Dataclasses[dc].config
    IN  Merge(Merge(("type" :> PyStr("object")) @@ ("title" :> PyStr(DcName(dc))),
                    AnnotationSchema(annotation)),
              ("properties" :> EmptyDict) @@ ("required" :> << >>))

\* a field whose type admits None taken for optional
FieldIsOptionalNullable(field) ==
    \/ field.default # MISSING
    \/ field.default_factory # MISSING
    \/ (field.type.k = "Union"
          /\ \E i \in DOMAIN field.type.args : field.type.args[i] = NoneType)

FieldIsOptional(field) ==
    field.default # MISSING \/ field.default_factory # MISSING

\* create_dc_schema: one turn of the loop, the field's fragment in hand
CreateDcSchemaField(schema, field, fragment) ==
    [schema EXCEPT
        !["properties"] = (field.name :> fragment) @@ @,
        !["required"] = IF FieldIsOptional(field) THEN @
                        ELSE Append(@, field.name)]

\* create_dc_schema: after the loop
CreateDcSchemaFinish(schema) ==
    IF schema["required"] = << >>
    THEN [k \in DOMAIN schema \ {"required"} |-> schema[k]]
    ELSE schema

\* a default of None taken for no default
WithDefaultNotNone(default) ==
    IF default \in {MISSING, None} THEN EmptyDict ELSE "default" :> default

WithDefault(default) ==
    IF default = MISSING THEN EmptyDict ELSE "default" :> default

\* the default tested for truth instead of for MISSING
UnionSchemaFalsyDefault(anyOf, default, annotation) ==
    Merge(("anyOf" :> anyOf)
            @@ (IF default \in {MISSING, None, PyInt(0), PyBool(FALSE)}
                THEN EmptyDict ELSE "default" :> default),
          AnnotationSchema(annotation))

UnionSchema(anyOf, default, annotation) ==
    Merge(("anyOf" :> anyOf) @@ WithDefault(default),
          AnnotationSchema(annotation))

get_literal_schema(type_, default, annotation) ==
    LET schema == Merge(WithDefault(default), AnnotationSchema(annotation))
    IN  Merge("enum" :> type_.args, schema)

DictSchema(args, value, annotation) ==
    IF args # << >>
    THEN Merge(("type" :> PyStr("object")) @@ ("additionalProperties" :> value),
               AnnotationSchema(annotation))
    ELSE Merge("type" :> PyStr("object"), AnnotationSchema(annotation))

ListSchema(args, items, annotation) ==
    IF args # << >>
    THEN Merge(("type" :> PyStr("array")) @@ ("items" :> items),
               AnnotationSchema(annotation))
    ELSE Merge("type" :> PyStr("array"), AnnotationSchema(annotation))

\* list(default)
ToList(default) == PyList(default.items)
IsIterable(value) == value.t \in {"tuple", "list"}

IsVariadic(args) == args # << >> /\ Len(args) = 2 /\ args[2] = Ellipsis

\* a variadic tuple compiled as a tuple of fixed arity
TupleSchemaFixed(args, items, default, annotation) ==
    LET schema == IF default = MISSING
                  THEN AnnotationSchema(annotation)
                  ELSE Merge("default" :> ToList(default),
                             AnnotationSchema(annotation))
    IN  IF args # << >>
        THEN Merge(("type" :> PyStr("array")) @@ ("prefixItems" :> items)
                     @@ ("minItems" :> PyInt(Len(args)))
                     @@ ("maxItems" :> PyInt(Len(args))),
                   schema)
        ELSE Merge("type" :> PyStr("array"), schema)

\* get_tuple_schema: items is the compiled args[0] (variadic) or the list of
\* the compiled args (fixed arity); unused for a bare tuple.
TupleSchema(args, items, default, annotation) ==
    LET schema == IF default = MISSING
                  THEN AnnotationSchema(annotation)
                  ELSE Merge("default" :> ToList(default),
                             AnnotationSchema(annotation))
    IN  IF IsVariadic(args)
        THEN Merge(("type" :> PyStr("array")) @@ ("items" :> items), schema)
        ELSE IF args # << >>
        THEN Merge(("type" :> PyStr("array")) @@ ("prefixItems" :> items)
                     @@ ("minItems" :> PyInt(Len(args)))
                     @@ ("maxItems" :> PyInt(Len(args))),
                   schema)
        ELSE Merge("type" :> PyStr("array"), schema)

SetSchema(args, items, annotation) ==
    IF args # << >>
    THEN Merge(("type" :> PyStr("array")) @@ ("items" :> items)
                 @@ ("uniqueItems" :> PyBool(TRUE)),
               AnnotationSchema(annotation))
    ELSE Merge(("type" :> PyStr("array")) @@ ("uniqueItems" :> PyBool(TRUE)),
               AnnotationSchema(annotation))

Primitive(type, default, annotation) ==
    Merge(("type" :> PyStr(type)) @@ WithDefault(default),
          AnnotationSchema(annotation))

get_none_schema(default, annotation) == Primitive("null", default, annotation)
get_str_schema(default, annotation) == Primitive("string", default, annotation)
get_bool_schema(default, annotation) == Primitive("boolean", default, annotation)
get_int_schema(default, annotation) == Primitive("integer", default, annotation)
get_number_schema(default, annotation) == Primitive("number", default, annotation)

\* get_enum_schema: the entry of the registry
EnumDefinition(type_) ==
    LET members == EnumMembers(type_.id)
    IN  ("title" :> PyStr(type_.id))
          @@ ("enum" :> [i \in 1..Len(members) |-> members[i].value])

\* the default member itself instead of its value
EnumRefMember(type_, default, annotation) ==
    Merge(Ref("#/$defs/" \o type_.id) @@ WithDefault(default),
          AnnotationSchema(annotation))

\* get_enum_schema: the fragment at the field
EnumRef(type_, default, annotation) ==
    Merge(Ref("#/$defs/" \o type_.id)
            @@ (IF default = MISSING THEN EmptyDict
                ELSE "default" :> default.value),
          AnnotationSchema(annotation))

get_datetime_schema(annotation) ==
    Merge(("type" :> PyStr("string")) @@ ("format" :> PyStr("date-time")),
          AnnotationSchema(annotation))

get_date_schema(annotation) ==
    Merge(("type" :> PyStr("string")) @@ ("format" :> PyStr("date")),
          AnnotationSchema(annotation))

\* the class tests in another order: Enum before Number, date before
\* datetime, int before bool
DispatchReordered(type_) ==
    IF IsDataclass(type_) THEN "get_dc_schema"
    ELSE IF GetOrigin(type_) = "Union" THEN "get_union_schema"
    ELSE IF GetOrigin(type_) = "Literal" THEN "get_literal_schema"
    ELSE IF GetOrigin(type_) = "Annotated" THEN "get_annotated_schema"
    ELSE IF GetOrigin(type_) = "dict" THEN "get_dict_schema"
    ELSE IF GetOrigin(type_) = "list" THEN "get_list_schema"
    ELSE IF GetOrigin(type_) = "tuple" THEN "get_tuple_schema"
    ELSE IF GetOrigin(type_) = "set" THEN "get_set_schema"
    ELSE IF type_ = NoneType THEN "get_none_schema"
    ELSE IF type_ = str THEN "get_str_schema"
    ELSE IF type_.k # "class" THEN "TypeError"
    ELSE IF IsSubclass(type_, "int") /\ ~IsSubclass(type_, "Enum")
         THEN "get_int_schema"
    ELSE IF type_ = Cls("bool") THEN "get_bool_schema"
    ELSE IF IsSubclass(type_, "Enum") THEN "get_enum_schema"
    ELSE IF IsSubclass(type_, "Number") THEN "get_number_schema"
    ELSE IF IsSubclass(type_, "date") THEN "get_date_schema"
    ELSE IF IsSubclass(type_, "datetime") THEN "get_datetime_schema"
    ELSE "NotImplementedError"

\* get_field_schema: the handler the first matching test selects
Dispatch(type_) ==
    IF IsDataclass(type_) THEN "get_dc_schema"
    ELSE IF GetOrigin(type_) = "Union" THEN "get_union_schema"
    ELSE IF GetOrigin(type_) = "Literal" THEN "get_literal_schema"
    ELSE IF GetOrigin(type_) = "Annotated" THEN "get_annotated_schema"
    ELSE IF GetOrigin(type_) = "dict" THEN "get_dict_schema"
    ELSE IF GetOrigin(type_) = "list" THEN "get_list_schema"
    ELSE IF GetOrigin(type_) = "tuple" THEN "get_tuple_schema"
    ELSE IF GetOrigin(type_) = "set" THEN "get_set_schema"
    ELSE IF type_ = NoneType THEN "get_none_schema"
    ELSE IF type_ = str THEN "get_str_schema"
    ELSE IF type_ = Cls("bool") THEN "get_bool_schema"
    ELSE IF type_ = int THEN "get_int_schema"
    ELSE IF type_.k # "class" THEN "TypeError"
    ELSE IF IsSubclass(type_, "Number") THEN "get_number_schema"
    ELSE IF IsSubclass(type_, "Enum") THEN "get_enum_schema"
    ELSE IF IsSubclass(type_, "datetime") THEN "get_datetime_schema"
    ELSE IF IsSubclass(type_, "date") THEN "get_date_schema"
    ELSE "NotImplementedError"

(***************************************************************************)
(* The state: per get_schema call its _GetSchema object (root, seen_root,  *)
(* defs), the call stack of the descent, the call or return in progress,   *)
(* and how the call ended.  log records, per call, the dataclass it was    *)
(* given, its create_dc_schema calls and its insertions into defs, in      *)
(* order.                                                                  *)
(***************************************************************************)
VARIABLES pc, root, seen_root, defs, stack, ctl, result, raised, log, built

vars == <<pc, root, seen_root, defs, stack, ctl, result, raised, log, built>>

\* one _GetSchema object serving every call
SelfShared(s) == "s1"

\* get_schema: the _GetSchema object the call builds and runs on
Self(s) == s

Call(type_, default, annotation) ==
    [op |-> "call", type |-> type_, default |-> default,
     annotation |-> annotation]
Ret(by, call, val) == [op |-> "ret", by |-> by, call |-> call, val |-> val]
Halt == [op |-> "halt"]
Event(e, id, name) == [e |-> e, id |-> id, name |-> name]

Top(s) == stack[s][Len(stack[s])]
Pop(s) == SubSeq(stack[s], 1, Len(stack[s]) - 1)

\* get_field_schema is called and its dispatch selects handler fn
Calling(s, fn) ==
    pc[s] = "running" /\ ctl[s].op = "call" /\ Dispatch(ctl[s].type) = fn

\* a callee has returned into the frame of handler fn
Returning(s, fn) ==
    pc[s] = "running" /\ ctl[s].op = "ret" /\ Top(s).fn = fn

\* the handler of the current call returns val without a call of its own
Return(s, by, val) ==
    /\ ctl' = [ctl EXCEPT ![s] = Ret(by, ctl[s], val)]
    /\ UNCHANGED <<pc, stack, result, raised>>

\* the exception caught where it is raised, an empty fragment in its place
RaiseSwallowed(s, exc) == Return(s, "get_field_schema", EmptyDict)

\* an exception: nothing catches it, get_schema raises it
Raise(s, exc) ==
    /\ pc' = [pc EXCEPT ![s] = "error"]
    /\ raised' = [raised EXCEPT ![s] = exc]
    /\ stack' = [stack EXCEPT ![s] = << >>]
    /\ ctl' = [ctl EXCEPT ![s] = Halt]
    /\ UNCHANGED result

\* the handler of the current call keeps frames and calls get_field_schema
Descend(s, frames, call) ==
    IF Len(stack[s]) + Len(frames) > MaxDepth
    THEN Raise(s, "RecursionError")
    ELSE /\ stack' = [stack EXCEPT ![s] = @ \o frames]
         /\ ctl' = [ctl EXCEPT ![s] = call]
         /\ UNCHANGED <<pc, result, raised>>

\* the frame on top takes the next call of its loop
Continue(s, frame, call) ==
    /\ stack' = [stack EXCEPT ![s] = Append(Pop(s), frame)]
    /\ ctl' = [ctl EXCEPT ![s] = call]
    /\ UNCHANGED <<pc, result, raised>>

\* the frame on top returns val to its caller
Leave(s, val) ==
    /\ stack' = [stack EXCEPT ![s] = Pop(s)]
    /\ ctl' = [ctl EXCEPT ![s] = Ret(Top(s).fn, Top(s).call, val)]
    /\ UNCHANGED <<pc, result, raised>>

\* a metadata construction not yet made, made, or failed
Pending == [st |-> "pending"]
Made(schema) == [st |-> "made", schema |-> schema]
Failed(exc) == [st |-> "raised", exc |-> exc]

Init ==
    /\ pc = [s \in Sessions |-> "idle"]
    /\ root = [s \in Sessions |-> "None"]
    /\ seen_root = [s \in Sessions |-> FALSE]
    /\ defs = [s \in Sessions |-> EmptyDict]
    /\ stack = [s \in Sessions |-> << >>]
    /\ ctl = [s \in Sessions |-> Halt]
    /\ result = [s \in Sessions |-> EmptyDict]
    /\ raised = [s \in Sessions |-> "None"]
    /\ log = [s \in Sessions |-> << >>]
    /\ built = [kwargs |-> EmptyDict, typed |-> Pending, legacy |-> Pending]

\* get_schema(dc): _GetSchema()(dc) up to its call of get_dc_schema
GetSchema(s, dc) ==
    /\ pc[s] = "idle"
    /\ pc' = [pc EXCEPT ![s] = "running"]
    /\ root' = [root EXCEPT ![Self(s)] = dc]
    /\ seen_root' = [seen_root EXCEPT ![Self(s)] = FALSE]
    /\ defs' = [defs EXCEPT ![Self(s)] = EmptyDict]
    /\ stack' = [stack EXCEPT ![s] = << [fn |-> "__call__"] >>]
    /\ ctl' = [ctl EXCEPT ![s] = Call(Dc(dc), MISSING, NoAnnotation)]
    /\ log' = [log EXCEPT ![s] = << Event("call", dc, DcName(dc)) >>]
    /\ UNCHANGED <<result, raised, built>>

\* $defs set whether or not the registry holds anything
DocumentAlwaysDefs(schema, registry) ==
    Merge("$schema" :> SchemaUrl, ("$defs" :> registry) @@ schema)

\* _GetSchema.__call__: the document, from the root's schema and self.defs
Document(schema, registry) ==
    LET with_defs == IF registry # EmptyDict
                     THEN ("$defs" :> registry) @@ schema
                     ELSE schema
    IN  Merge("$schema" :> SchemaUrl, with_defs)

\* _GetSchema.__call__ after get_dc_schema has returned
CallReturn(s) ==
    /\ Returning(s, "__call__")
    /\ result' = [result EXCEPT ![s] = Document(ctl[s].val, defs[Self(s)])]
    /\ pc' = [pc EXCEPT ![s] = "done"]
    /\ stack' = [stack EXCEPT ![s] = << >>]
    /\ ctl' = [ctl EXCEPT ![s] = Halt]
    /\ UNCHANGED <<root, seen_root, defs, raised, log, built>>

\* get_dc_schema calls create_dc_schema, which calls get_field_schema on
\* its first field (or returns at once, having no field)
EnterCreate(s, dc) ==
    LET frame == [fn |-> "get_dc_schema", call |-> ctl[s]]
        fields == DcFields(dc)
    IN  /\ log' = [log EXCEPT ![s] = Append(@, Event("create", dc, DcName(dc)))]
        /\ IF fields = << >>
           THEN Descend(s, <<frame>>,
                        Ret("create_dc_schema", ctl[s],
                            CreateDcSchemaFinish(CreateDcSchemaInit(dc))))
           ELSE Descend(s,
                    << frame,
                       [fn |-> "create_dc_schema", call |-> ctl[s], i |-> 1,
                        schema |-> CreateDcSchemaInit(dc)] >>,
                    Call(fields[1].type, fields[1].default, NoAnnotation))

GetDcSchema(s) ==
    /\ Calling(s, "get_dc_schema")
    /\ LET dc == ctl[s].type.id
           annotation == ctl[s].annotation
       IN  IF dc = root[Self(s)]
           THEN IF seen_root[Self(s)]
                THEN /\ Return(s, "get_dc_schema", RootRef(annotation))
                     /\ UNCHANGED <<seen_root, log>>
                ELSE /\ seen_root' = [seen_root EXCEPT ![Self(s)] = TRUE]
                     /\ EnterCreate(s, dc)
           ELSE /\ IF NotInDefs(DcName(dc), defs[Self(s)])
                   THEN EnterCreate(s, dc)
                   ELSE /\ Return(s, "get_dc_schema",
                                  DefsRef(DcName(dc), annotation))
                        /\ UNCHANGED log
                /\ UNCHANGED seen_root
    /\ UNCHANGED <<root, defs, built>>

\* create_dc_schema: a field's fragment is back; the next field, or the end
CreateDcSchemaReturn(s) ==
    /\ Returning(s, "create_dc_schema")
    /\ LET frame == Top(s)
           fields == DcFields(frame.call.type.id)
           schema == CreateDcSchemaField(frame.schema, fields[frame.i],
                                         ctl[s].val)
       IN  IF frame.i < Len(fields)
           THEN Continue(s, [frame EXCEPT !.i = @ + 1, !.schema = schema],
                         Call(fields[frame.i + 1].type,
                              fields[frame.i + 1].default, NoAnnotation))
           ELSE Leave(s, CreateDcSchemaFinish(schema))
    /\ UNCHANGED <<root, seen_root, defs, log, built>>

\* get_dc_schema: create_dc_schema is back
GetDcSchemaReturn(s) ==
    /\ Returning(s, "get_dc_schema")
    /\ LET call == Top(s).call
           dc == call.type.id
       IN  IF dc = root[Self(s)]
           THEN /\ Leave(s, ctl[s].val)
                /\ UNCHANGED <<defs, log>>
           ELSE /\ defs' = [defs EXCEPT
                              ![Self(s)] = Store(@, DcName(dc), ctl[s].val)]
                /\ log' = [log EXCEPT
                              ![s] = Append(@, Event("insert", dc, DcName(dc)))]
                /\ Leave(s, DefsRef(DcName(dc), call.annotation))
    /\ UNCHANGED <<root, seen_root, built>>

Frame(fn, s) == [fn |-> fn, call |-> ctl[s]]
Loop(fn, s) == [fn |-> fn, call |-> ctl[s], i |-> 1, acc |-> << >>]
\* what the handlers below leave alone
Session == <<root, seen_root, defs, log, built>>

GetUnionSchema(s) ==
    /\ Calling(s, "get_union_schema")
    /\ Descend(s, << Loop("get_union_schema", s) >>,
               Call(ctl[s].type.args[1], MISSING, NoAnnotation))
    /\ UNCHANGED Session

\* get_union_schema: a member's fragment is back
GetUnionSchemaReturn(s) ==
    /\ Returning(s, "get_union_schema")
    /\ LET frame == Top(s)
           args == frame.call.type.args
           anyOf == Append(frame.acc, ctl[s].val)
       IN  IF frame.i < Len(args)
           THEN Continue(s, [frame EXCEPT !.i = @ + 1, !.acc = anyOf],
                         Call(args[frame.i + 1], MISSING, NoAnnotation))
           ELSE Leave(s, UnionSchema(anyOf, frame.call.default,
                                     frame.call.annotation))
    /\ UNCHANGED Session

GetLiteralSchema(s) ==
    /\ Calling(s, "get_literal_schema")
    /\ Return(s, "get_literal_schema",
              get_literal_schema(ctl[s].type, ctl[s].default,
                                 ctl[s].annotation))
    /\ UNCHANGED Session

\* get_annotated_schema: get_args is the base type and the metadata
GetAnnotatedSchema(s) ==
    /\ Calling(s, "get_annotated_schema")
    /\ IF 1 + Len(ctl[s].type.meta) # 2
       THEN Raise(s, "AssertionError")
       ELSE Descend(s, << Frame("get_annotated_schema", s) >>,
                    Call(ctl[s].type.base, ctl[s].default,
                         ctl[s].type.meta[1]))
    /\ UNCHANGED Session

GetAnnotatedSchemaReturn(s) ==
    /\ Returning(s, "get_annotated_schema")
    /\ Leave(s, ctl[s].val)
    /\ UNCHANGED Session

GetDictSchema(s) ==
    /\ Calling(s, "get_dict_schema")
    /\ LET args == ctl[s].type.args
       IN  IF Len(args) \notin {0, 2} THEN Raise(s, "AssertionError")
           ELSE IF args = << >>
           THEN Return(s, "get_dict_schema",
                       DictSchema(args, EmptyDict, ctl[s].annotation))
           ELSE IF args[1] # str THEN Raise(s, "AssertionError")
           ELSE Descend(s, << Frame("get_dict_schema", s) >>,
                        Call(args[2], MISSING, NoAnnotation))
    /\ UNCHANGED Session

GetDictSchemaReturn(s) ==
    /\ Returning(s, "get_dict_schema")
    /\ Leave(s, DictSchema(Top(s).call.type.args, ctl[s].val,
                           Top(s).call.annotation))
    /\ UNCHANGED Session

GetListSchema(s) ==
    /\ Calling(s, "get_list_schema")
    /\ LET args == ctl[s].type.args
       IN  IF Len(args) \notin {0, 1} THEN Raise(s, "AssertionError")
           ELSE IF args = << >>
           THEN Return(s, "get_list_schema",
                       ListSchema(args, EmptyDict, ctl[s].annotation))
           ELSE Descend(s, << Frame("get_list_schema", s) >>,
                        Call(args[1], MISSING, NoAnnotation))
    /\ UNCHANGED Session

GetListSchemaReturn(s) ==
    /\ Returning(s, "get_list_schema")
    /\ Leave(s, ListSchema(Top(s).call.type.args, ctl[s].val,
                           Top(s).call.annotation))
    /\ UNCHANGED Session

GetTupleSchema(s) ==
    /\ Calling(s, "get_tuple_schema")
    /\ LET args == ctl[s].type.args
           default == ctl[s].default
       IN  IF default # MISSING /\ ~IsIterable(default)
           THEN Raise(s, "TypeError")
           ELSE IF args = << >>
           THEN Return(s, "get_tuple_schema",
                       TupleSchema(args, << >>, default, ctl[s].annotation))
           ELSE Descend(s, << Loop("get_tuple_schema", s) >>,
                        Call(args[1], MISSING, NoAnnotation))
    /\ UNCHANGED Session

\* get_tuple_schema: the fragment of args[0], or of the next positional arg
GetTupleSchemaReturn(s) ==
    /\ Returning(s, "get_tuple_schema")
    /\ LET frame == Top(s)
           call == frame.call
           args == call.type.args
           items == Append(frame.acc, ctl[s].val)
       IN  IF IsVariadic(args)
           THEN Leave(s, TupleSchema(args, ctl[s].val, call.default,
                                     call.annotation))
           ELSE IF frame.i < Len(args)
           THEN Continue(s, [frame EXCEPT !.i = @ + 1, !.acc = items],
                         Call(args[frame.i + 1], MISSING, NoAnnotation))
           ELSE Leave(s, TupleSchema(args, items, call.default,
                                     call.annotation))
    /\ UNCHANGED Session

GetSetSchema(s) ==
    /\ Calling(s, "get_set_schema")
    /\ LET args == ctl[s].type.args
       IN  IF Len(args) \notin {0, 1} THEN Raise(s, "AssertionError")
           ELSE IF args = << >>
           THEN Return(s, "get_set_schema",
                       SetSchema(args, EmptyDict, ctl[s].annotation))
           ELSE Descend(s, << Frame("get_set_schema", s) >>,
                        Call(args[1], MISSING, NoAnnotation))
    /\ UNCHANGED Session

GetSetSchemaReturn(s) ==
    /\ Returning(s, "get_set_schema")
    /\ Leave(s, SetSchema(Top(s).call.type.args, ctl[s].val,
                          Top(s).call.annotation))
    /\ UNCHANGED Session

GetNoneSchema(s) ==
    /\ Calling(s, "get_none_schema")
    /\ Return(s, "get_none_schema",
              get_none_schema(ctl[s].default, ctl[s].annotation))
    /\ UNCHANGED Session

GetStrSchema(s) ==
    /\ Calling(s, "get_str_schema")
    /\ Return(s, "get_str_schema",
              get_str_schema(ctl[s].default, ctl[s].annotation))
    /\ UNCHANGED Session

GetBoolSchema(s) ==
    /\ Calling(s, "get_bool_schema")
    /\ Return(s, "get_bool_schema",
              get_bool_schema(ctl[s].default, ctl[s].annotation))
    /\ UNCHANGED Session

GetIntSchema(s) ==
    /\ Calling(s, "get_int_schema")
    /\ Return(s, "get_int_schema",
              get_int_schema(ctl[s].default, ctl[s].annotation))
    /\ UNCHANGED Session

GetNumberSchema(s) ==
    /\ Calling(s, "get_number_schema")
    /\ Return(s, "get_number_schema",
              get_number_schema(ctl[s].default, ctl[s].annotation))
    /\ UNCHANGED Session

GetEnumSchema(s) ==
    /\ Calling(s, "get_enum_schema")
    /\ LET type_ == ctl[s].type
           default == ctl[s].default
           fresh == NotInDefs(type_.id, defs[Self(s)])
       IN  /\ defs' = [defs EXCEPT
                         ![Self(s)] = IF fresh
                                THEN Store(@, type_.id, EnumDefinition(type_))
                                ELSE @]
           /\ log' = [log EXCEPT
                         ![s] = IF fresh
                                THEN Append(@, Event("insert", type_.id, type_.id))
                                ELSE @]
           /\ IF default # MISSING /\ default.t # "member"
              THEN Raise(s, "AttributeError")
              ELSE Return(s, "get_enum_schema",
                          EnumRef(type_, default, ctl[s].annotation))
    /\ UNCHANGED <<root, seen_root, built>>

GetDatetimeSchema(s) ==
    /\ Calling(s, "get_datetime_schema")
    /\ Return(s, "get_datetime_schema", get_datetime_schema(ctl[s].annotation))
    /\ UNCHANGED Session

GetDateSchema(s) ==
    /\ Calling(s, "get_date_schema")
    /\ Return(s, "get_date_schema", get_date_schema(ctl[s].annotation))
    /\ UNCHANGED Session

\* get_field_schema: no test matches, or issubclass is given no class
Unsupported(s) ==
    /\ \E exc \in {"NotImplementedError", "TypeError"} :
          Calling(s, exc) /\ Raise(s, exc)
    /\ UNCHANGED Session

Next ==
    \E s \in Sessions :
        \/ \E dc \in DcIds : GetSchema(s, dc)
        \/ CallReturn(s)
        \/ GetDcSchema(s)
        \/ GetDcSchemaReturn(s)
        \/ CreateDcSchemaReturn(s)
        \/ GetUnionSchema(s)
        \/ GetUnionSchemaReturn(s)
        \/ GetLiteralSchema(s)
        \/ GetAnnotatedSchema(s)
        \/ GetAnnotatedSchemaReturn(s)
        \/ GetDictSchema(s)
        \/ GetDictSchemaReturn(s)
        \/ GetListSchema(s)
        \/ GetListSchemaReturn(s)
        \/ GetTupleSchema(s)
        \/ GetTupleSchemaReturn(s)
        \/ GetSetSchema(s)
        \/ GetSetSchemaReturn(s)
        \/ GetNoneSchema(s)
        \/ GetStrSchema(s)
        \/ GetBoolSchema(s)
        \/ GetIntSchema(s)
        \/ GetNumberSchema(s)
        \/ GetEnumSchema(s)
        \/ GetDatetimeSchema(s)
        \/ GetDateSchema(s)
        \/ Unsupported(s)

Spec == Init /\ [][Next]_vars

(***************************************************************************)
(* The two ways to build a metadata payload: the class SchemaAnnotation of *)
(* dc_schema, and the function annotation of dataclass_schema, whose       *)
(* result is a JSON text that the compiler decodes with json.loads.  Both  *)
(* are applied to the same keyword arguments.                              *)
(***************************************************************************)
\* how many keyword arguments one construction is given
MaxKwargs == 2

\* the parameters of annotation(...)
LegacyFields ==
    {"title", "description", "examples", "deprecated", "min_length",
     "max_length", "pattern", "format_", "minimum", "maximum",
     "exclusive_minimum", "exclusive_maximum", "multiple_of"}

\* the key annotation(...) puts the value of parameter k under
LegacyKey(k) ==
    CASE k = "min_length" -> "minLength"
      [] k = "max_length" -> "maxLength"
      [] k = "format_" -> "format"
      [] k = "exclusive_minimum" -> "exclusiveMinimum"
      [] k = "exclusive_maximum" -> "exclusiveMaximum"
      [] k = "multiple_of" -> "multipleOf"
      [] OTHER -> k

\* json.dumps of a value
RECURSIVE JsonDumps(_)
JsonDumps(v) ==
    CASE v.t = "none" -> [j |-> "null"]
      [] v.t = "str" -> [j |-> "string", s |-> v.s]
      [] v.t = "bool" -> [j |-> IF v.b THEN "true" ELSE "false"]
      [] v.t = "int" -> [j |-> "number", digits |-> v.i, point |-> FALSE]
      [] v.t = "float" -> [j |-> "number", digits |-> v.f, point |-> TRUE]
      [] v.t \in {"list", "tuple"} ->
            [j |-> "array",
             items |-> [i \in DOMAIN v.items |-> JsonDumps(v.items[i])]]

\* json.loads of a JSON value
RECURSIVE JsonLoads(_)
JsonLoads(x) ==
    CASE x.j = "null" -> None
      [] x.j = "string" -> PyStr(x.s)
      [] x.j = "true" -> PyBool(TRUE)
      [] x.j = "false" -> PyBool(FALSE)
      [] x.j = "number" ->
            IF x.point THEN PyFloat(x.digits) ELSE PyInt(x.digits)
      [] x.j = "array" ->
            PyList([i \in DOMAIN x.items |-> JsonLoads(x.items[i])])

\* annotation(**kwargs): the JSON text of the arguments that are not None
LegacyAnnotation(kwargs) ==
    LET given == {k \in LegacyFields : k \in DOMAIN kwargs /\ kwargs[k] # None}
    IN  [jk \in {LegacyKey(k) : k \in given} |->
            JsonDumps(kwargs[CHOOSE k \in given : LegacyKey(k) = jk])]

\* json.loads(extra): the mapping the legacy compiler merges into fragments
LegacyDecode(extra) == [jk \in DOMAIN extra |-> JsonLoads(extra[jk])]

\* a call with a keyword the callee has no parameter for raises TypeError
Accepts(fields, kwargs) == DOMAIN kwargs \subseteq fields

Keywords == AnnFields \cup LegacyFields

\* a value of the declared type of keyword k
Sample(k) ==
    CASE k \in {"title", "description", "pattern"} -> PyStr("text")
      [] k \in {"format", "format_"} -> PyStr("email")
      [] k = "examples" -> PyList(<< PyInt(1), PyStr("a") >>)
      [] k \in {"deprecated", "unique_items"} -> PyBool(TRUE)
      [] k \in {"minimum", "maximum", "exclusive_minimum",
                "exclusive_maximum", "multiple_of"} -> PyFloat("0.5")
      [] OTHER -> PyInt(1)

\* the keyword assignments: up to MaxKwargs keywords, each given a value of
\* its type or None
KwargsOver(S) ==
    {[k \in S |-> IF k \in N THEN None ELSE Sample(k)] : N \in SUBSET S}
Kwargs ==
    UNION {KwargsOver(S) : S \in {T \in SUBSET Keywords : Cardinality(T) <= MaxKwargs}}

InitMeta ==
    /\ pc = [s \in Sessions |-> "idle"]
    /\ root = [s \in Sessions |-> "None"]
    /\ seen_root = [s \in Sessions |-> FALSE]
    /\ defs = [s \in Sessions |-> EmptyDict]
    /\ stack = [s \in Sessions |-> << >>]
    /\ ctl = [s \in Sessions |-> Halt]
    /\ result = [s \in Sessions |-> EmptyDict]
    /\ raised = [s \in Sessions |-> "None"]
    /\ log = [s \in Sessions |-> << >>]
    /\ \E kwargs \in Kwargs :
          built = [kwargs |-> kwargs, typed |-> Pending, legacy |-> Pending]

\* SchemaAnnotation(**kwargs).schema()
ConstructSchemaAnnotation ==
    /\ built.typed = Pending
    /\ built' = [built EXCEPT
          !.typed = IF Accepts(AnnFields, built.kwargs)
                    THEN Made(AnnotationSchema(SchemaAnnotation(built.kwargs)))
                    ELSE Failed("TypeError")]
    /\ UNCHANGED <<pc, root, seen_root, defs, stack, ctl, result, raised, log>>

\* json.loads(annotation(**kwargs))
CallAnnotation ==
    /\ built.legacy = Pending
    /\ built' = [built EXCEPT
          !.legacy = IF Accepts(LegacyFields, built.kwargs)
                     THEN Made(LegacyDecode(LegacyAnnotation(built.kwargs)))
                     ELSE Failed("TypeError")]
    /\ UNCHANGED <<pc, root, seen_root, defs, stack, ctl, result, raised, log>>

NextMeta == ConstructSchemaAnnotation \/ CallAnnotation

SpecMeta == InitMeta /\ [][NextMeta]_vars

(***************************************************************************)
(* What the claims speak of.                                               *)
(***************************************************************************)
\* the dataclass a call was given
Arg(s) == log[s][1].id
Events(s, e) == {i \in DOMAIN log[s] : log[s][i].e = e}
\* a handler has just returned a fragment
Returned(s, by) == ctl[s].op = "ret" /\ ctl[s].by = by
\* get_dc_schema has just returned for a reference to dataclass dc (the
\* first emission of the root returns to __call__, every reference deeper)
Referenced(s) == Returned(s, "get_dc_schema") /\ Len(stack[s]) > 1
RefTo(target) == << "$ref" :> PyStr(target) >>
Creating(s) == {i \in DOMAIN stack[s] : stack[s][i].fn = "create_dc_schema"}

\* C1: get_schema terminates on every finite type graph: the descent never
\* enters create_dc_schema for a dataclass whose create_dc_schema is still
\* on the stack, the root or not, and no call ends by exhausting the stack.
C1_Terminates ==
    \A s \in Sessions :
        /\ raised[s] # "RecursionError"
        /\ \A i, j \in Creating(s) :
              i # j => stack[s][i].call.type.id # stack[s][j].call.type.id

\* C2: every reference to the root dataclass compiles to
\* allOf [{"$ref": "#"}]; the root's object fragment is built once, is the
\* document's root, and the root is never inserted into $defs.
C2_RootReference ==
    \A s \in Sessions :
        /\ (Referenced(s) /\ ctl[s].call.type.id = root[s]) =>
              /\ "allOf" \in DOMAIN ctl[s].val
              /\ ctl[s].val["allOf"] = RefTo("#")
        /\ pc[s] # "idle" =>
              /\ Cardinality({i \in Events(s, "create") : log[s][i].id = root[s]}) <= 1
              /\ \A i \in Events(s, "insert") : log[s][i].id # root[s]
        /\ pc[s] = "done" =>
              /\ Cardinality({i \in Events(s, "create") : log[s][i].id = root[s]}) = 1
              /\ result[s]["type"] = PyStr("object")
              /\ result[s]["title"] = PyStr(DcName(root[s]))
              /\ DOMAIN result[s]["properties"] =
                    {DcFields(root[s])[i].name : i \in DOMAIN DcFields(root[s])}

\* a reference to the root from inside the definition of another dataclass
C2_Witness ==
    \E s \in Sessions :
        /\ Referenced(s) /\ ctl[s].call.type.id = root[s]
        /\ \E i \in Creating(s) : stack[s][i].call.type.id # root[s]
        /\ ctl[s].val["allOf"] = RefTo("#")

\* C3: a dataclass other than the root is compiled and inserted at most
\* once however many paths reach it (two classes of one name are two
\* types), and so is an enum class that
\* get_field_schema hands to get_enum_schema; every reference to it is
\* allOf [{"$ref": "#/$defs/<name>"}] and its name is then in the registry;
\* the finished document holds its object fragment under that name.
C3_OneDefinition ==
    \A s \in Sessions :
        /\ \A i, j \in Events(s, "insert") :
              log[s][i].id = log[s][j].id => i = j
        /\ (Referenced(s) /\ ctl[s].call.type.id # root[s]) =>
              LET name == DcName(ctl[s].call.type.id)
              IN  /\ "allOf" \in DOMAIN ctl[s].val
                  /\ ctl[s].val["allOf"] = RefTo("#/$defs/" \o name)
                  /\ name \in DOMAIN defs[s]
        /\ Returned(s, "get_enum_schema") =>
              /\ ctl[s].val["allOf"] = RefTo("#/$defs/" \o ctl[s].call.type.id)
              /\ ctl[s].call.type.id \in DOMAIN defs[s]
        /\ pc[s] = "done" =>
              \A i \in Events(s, "create") :
                  /\ \A j \in Events(s, "create") :
                        log[s][i].id = log[s][j].id => i = j
                  /\ log[s][i].id # root[s] =>
                        /\ log[s][i].name \in DOMAIN result[s]["$defs"]
                        /\ result[s]["$defs"][log[s][i].name]["title"] =
                              PyStr(log[s][i].name)

\* the second path to DcRefsChild, inside list[DcRefsChild], after the
\* first path has inserted it
C3_Witness ==
    \E s \in Sessions :
        /\ Referenced(s)
        /\ ctl[s].call.type.id = "DcRefsChild"
        /\ Top(s).fn = "get_list_schema"
        /\ Cardinality({i \in Events(s, "create") : log[s][i].id = "DcRefsChild"}) = 1
        /\ "DcRefsChild" \in DOMAIN defs[s]

\* C4: the fragment create_dc_schema returns lists in `required` exactly
\* the fields with neither default nor default_factory, in declaration
\* order, whether or not their type admits None, and has no `required` key
\* when there is none.
C4_Required ==
    \A s \in Sessions :
        Returned(s, "create_dc_schema") =>
            LET fields == DcFields(ctl[s].call.type.id)
                bare == SelectSeq(fields,
                          LAMBDA f : f.default = MISSING
                                     /\ f.default_factory = MISSING)
                names == [i \in DOMAIN bare |-> bare[i].name]
            IN  IF names = << >>
                THEN "required" \notin DOMAIN ctl[s].val
                ELSE /\ "required" \in DOMAIN ctl[s].val
                     /\ ctl[s].val["required"] = names

\* DcNone: a field typed Optional[int] without default is required, the
\* field with a default is not; DcOptional: no field is required
C4_Witness ==
    \E s, t \in Sessions :
        /\ Returned(s, "create_dc_schema")
        /\ ctl[s].call.type.id = "DcNone"
        /\ ctl[s].val["required"] = <<"a", "b">>
        /\ Returned(t, "create_dc_schema")
        /\ ctl[t].call.type.id = "DcOptional"
        /\ "required" \notin DOMAIN ctl[t].val

\* the dataclasses and enum classes a type hint leads get_field_schema to
RECURSIVE Named(_)
Named(type_) ==
    CASE type_.k = "dataclass" -> {type_.id}
      [] type_.k = "class" ->
            IF Dispatch(type_) = "get_enum_schema" THEN {type_.id} ELSE {}
      [] type_.k \in {"Union", "generic"} ->
            UNION {Named(type_.args[i]) : i \in DOMAIN type_.args}
      [] type_.k = "Annotated" -> Named(type_.base)
      [] OTHER -> {}

NamedIn(dc) == UNION {Named(DcFields(dc)[i].type) : i \in DOMAIN DcFields(dc)}

RECURSIVE Closure(_)
Closure(set) ==
    LET more == set \cup UNION {NamedIn(dc) : dc \in set \cap DcIds}
    IN  IF more = set THEN set ELSE Closure(more)

\* the names the type graph of a root dataclass puts into $defs
ExpectedDefs(dc) ==
    {IF x \in DcIds THEN DcName(x) ELSE x : x \in Closure({dc}) \ {dc}}

DefsOf(document) ==
    IF "$defs" \in DOMAIN document THEN DOMAIN document["$defs"] ELSE {}

\* C5: every get_schema call runs on session state of its own that starts
\* empty: its root is the dataclass it was given, its registry never holds
\* a name outside its own type graph, its document has exactly the $defs of
\* its own type graph, and two calls given the same dataclass return the
\* same document, whatever the other call did in between.
C5_OwnSession ==
    \A s \in Sessions :
        /\ pc[s] # "idle" =>
              /\ root[s] = Arg(s)
              /\ DOMAIN defs[s] \subseteq ExpectedDefs(Arg(s))
              /\ Len(log[s]) = 1 => defs[s] = EmptyDict /\ ~seen_root[s]
        /\ pc[s] = "done" => DefsOf(result[s]) = ExpectedDefs(Arg(s))
        /\ \A t \in Sessions :
              (pc[s] = "done" /\ pc[t] = "done" /\ Arg(s) = Arg(t)) =>
                  result[s] = result[t]

\* two calls in the middle of their descents, each with entries in its
\* registry that the other does not have
C5_Witness ==
    \E s, t \in Sessions :
        /\ pc[s] = "running" /\ pc[t] = "running"
        /\ Len(stack[s]) > 2 /\ Len(stack[t]) > 2
        /\ DOMAIN defs[s] # {} /\ DOMAIN defs[t] # {}
        /\ DOMAIN defs[s] \cap DOMAIN defs[t] = {}

ConfigKeys(dc) ==
    IF Dataclasses[dc].config = NoConfig THEN {}
    ELSE DOMAIN AnnotationSchema(Dataclasses[dc].config)

\* C7: the metadata given with a reference to a dataclass becomes sibling
\* keys of allOf in the fragment of that reference, the same for a
\* definition just inserted and one already there, and nowhere else: the
\* $defs entry and the root's inline fragment have the keys of the object
\* fragment and of the class's own SchemaConfig only, and their own title.
C7_ReferenceMetadata ==
    \A s \in Sessions :
        /\ Referenced(s) =>
              LET meta == AnnotationSchema(ctl[s].call.annotation)
              IN  /\ DOMAIN ctl[s].val = {"allOf"} \cup DOMAIN meta
                  /\ \A k \in DOMAIN meta : ctl[s].val[k] = meta[k]
        /\ \A i \in Events(s, "insert") :
              log[s][i].id \in DcIds =>
                  LET entry == defs[s][log[s][i].name]
                  IN  /\ DOMAIN entry \subseteq
                            {"type", "title", "properties", "required"}
                               \cup ConfigKeys(log[s][i].id)
                      /\ "title" \notin ConfigKeys(log[s][i].id) =>
                            entry["title"] = PyStr(log[s][i].name)
        /\ pc[s] = "done" =>
              /\ DOMAIN result[s] \subseteq
                    {"$schema", "$defs", "type", "title", "properties",
                     "required"} \cup ConfigKeys(Arg(s))
              /\ "title" \notin ConfigKeys(Arg(s)) =>
                    result[s]["title"] = PyStr(DcName(Arg(s)))

\* a reference with a title that inserts the definition (DcAnnotatedBook,
\* first met as Annotated[DcAnnotatedBook, title "First"]), and one that
\* finds it there (DcRefsChild in DcUnion, met in a union before)
C7_Witness ==
    \E s, t \in Sessions :
        /\ Referenced(s) /\ Referenced(t)
        /\ ctl[s].call.type.id = "DcAnnotatedBook"
        /\ ctl[s].call.annotation = Titled("First")
        /\ ctl[s].val["title"] = PyStr("First")
        /\ log[s][Len(log[s])] = Event("insert", "DcAnnotatedBook", "DcAnnotatedBook")
        /\ root[t] = "DcUnion"
        /\ ctl[t].call.type.id = "DcRefsChild"
        /\ ctl[t].call.annotation = Titled("Again")
        /\ ctl[t].val["title"] = PyStr("Again")
        /\ defs[t]["DcRefsChild"]["title"] = PyStr("DcRefsChild")

Keyword(id) ==
    CASE id = "int" -> "integer" [] id = "str" -> "string"
      [] id = "bool" -> "boolean" [] id = "float" -> "number"
      [] id = "NoneType" -> "null"

\* C8: a union compiles to anyOf with one fragment per member in
\* declaration order; every member is compiled with no default and no
\* metadata, the union's default and metadata are keys of the union's
\* fragment, and that fragment has `default` exactly when a default was
\* given.
C8_Union ==
    \A s \in Sessions :
        /\ (pc[s] = "running" /\ ctl[s].op = "call"
              /\ Top(s).fn = "get_union_schema") =>
              ctl[s].default = MISSING /\ ctl[s].annotation = NoAnnotation
        /\ Returned(s, "get_union_schema") =>
              LET args == ctl[s].call.type.args
                  val == ctl[s].val
                  meta == AnnotationSchema(ctl[s].call.annotation)
              IN  /\ DOMAIN val["anyOf"] = DOMAIN args
                  /\ \A i \in DOMAIN args :
                        /\ (args[i].k = "class"
                              /\ args[i].id \in {"int", "str", "bool", "float",
                                                 "NoneType"}) =>
                              val["anyOf"][i] =
                                  ("type" :> PyStr(Keyword(args[i].id)))
                        /\ args[i].k = "dataclass" =>
                              DOMAIN val["anyOf"][i] = {"allOf"}
                  /\ ("default" \in DOMAIN val) <=> (ctl[s].call.default # MISSING)
                  /\ "default" \in DOMAIN val => val["default"] = ctl[s].call.default
                  /\ \A k \in DOMAIN meta : val[k] = meta[k]

\* a union with the default None, and a union with default and metadata
C8_Witness ==
    \E s, t \in Sessions :
        /\ Returned(s, "get_union_schema") /\ Returned(t, "get_union_schema")
        /\ ctl[s].call.default = None
        /\ ctl[s].val["default"] = None
        /\ ctl[t].call.default = PyInt(42)
        /\ ctl[t].val["description"] = PyStr("age in years")
        /\ ctl[t].val["anyOf"] =
              << "type" :> PyStr("integer"), "type" :> PyStr("number") >>

\* C9: a tuple with N positional type arguments compiles to minItems = N,
\* maxItems = N and prefixItems of length N in argument order, whatever
\* default and metadata come with it.
C9_FixedTuple ==
    \A s \in Sessions :
        (Returned(s, "get_tuple_schema")
           /\ ctl[s].call.type.args # << >>
           /\ ~IsVariadic(ctl[s].call.type.args)) =>
            LET n == Len(ctl[s].call.type.args)
            IN  /\ ctl[s].val["minItems"] = PyInt(n)
                /\ ctl[s].val["maxItems"] = PyInt(n)
                /\ Len(ctl[s].val["prefixItems"]) = n

\* C10: a set compiles to type array with uniqueItems true, with or
\* without an element type and whatever metadata comes with it.
C10_SetUnique ==
    \A s \in Sessions :
        Returned(s, "get_set_schema") =>
            /\ ctl[s].val["type"] = PyStr("array")
            /\ ctl[s].val["uniqueItems"] = PyBool(TRUE)

\* the underlying values of an enum class, in member declaration order
Values(id) == [i \in DOMAIN EnumMembers(id) |-> EnumMembers(id)[i].value]

RECURSIVE Invalid(_)
Invalid(type_) ==
    CASE type_.k = "dataclass" -> FALSE
      [] type_.k = "Literal" -> FALSE
      [] type_.k = "class" -> Dispatch(type_) = "NotImplementedError"
      [] type_.k = "Union" ->
            \E i \in DOMAIN type_.args : Invalid(type_.args[i])
      [] type_.k = "Annotated" ->
            Len(type_.meta) # 1 \/ Invalid(type_.base)
      [] type_.k = "generic" /\ type_.origin = "dict" ->
            /\ type_.args # << >>
            /\ (Len(type_.args) # 2 \/ type_.args[1] # str
                  \/ Invalid(type_.args[2]))
      [] type_.k = "generic" /\ type_.origin = "tuple" ->
            IF IsVariadic(type_.args) THEN Invalid(type_.args[1])
            ELSE \E i \in DOMAIN type_.args : Invalid(type_.args[i])
      [] type_.k = "generic" /\ type_.origin \in {"list", "set"} ->
            Len(type_.args) > 1
              \/ \E i \in DOMAIN type_.args : Invalid(type_.args[i])
      [] OTHER -> TRUE

\* the type graph of a root dataclass holds such a shape
Offends(dc) ==
    \E d \in Closure({dc}) \cap DcIds :
        \E i \in DOMAIN DcFields(d) : Invalid(DcFields(d)[i].type)

\* C12: a call whose type graph holds an unsupported shape, a dict with a
\* key type other than str or an Annotated with other than one metadata
\* argument, at the root or anywhere below it, never returns a document:
\* it ends in an exception that get_schema raises, and a call that has
\* raised has produced nothing, whatever it had compiled before.
C12_Fatal ==
    \A s \in Sessions :
        /\ pc[s] = "done" => ~Offends(Arg(s))
        /\ pc[s] = "error" =>
              /\ raised[s] # "None"
              /\ result[s] = EmptyDict
              /\ stack[s] = << >>
        /\ result[s] # EmptyDict => pc[s] = "done"
        /\ (pc[s] = "error" /\ Offends(Arg(s))) =>
              raised[s] \in {"NotImplementedError", "TypeError",
                             "AssertionError"}

\* bytes met inside list[Optional[DcBytes]], after DcRefsChild was compiled
\* and registered; a dict keyed by int
C12_Witness ==
    \E s, t \in Sessions :
        /\ pc[s] = "error" /\ pc[t] = "error"
        /\ Arg(s) = "DcDeep"
        /\ raised[s] = "NotImplementedError"
        /\ "DcRefsChild" \in DOMAIN defs[s]
        /\ result[s] = EmptyDict
        /\ Arg(t) = "DcBadKey"
        /\ raised[t] = "AssertionError"

\* the handlers of the primitive shapes
PrimitiveHandlers ==
    {"get_none_schema", "get_str_schema", "get_bool_schema", "get_int_schema",
     "get_number_schema", "get_datetime_schema", "get_date_schema"}

\* C13: the fragment of a null, boolean, integer, number, text, date or
\* date-time field has `default` exactly when the field has a default
\* value, and then it is that value unchanged.
C13_PrimitiveDefault ==
    \A s \in Sessions :
        (ctl[s].op = "ret" /\ ctl[s].by \in PrimitiveHandlers) =>
            /\ ("default" \in DOMAIN ctl[s].val)
                  <=> (ctl[s].call.default # MISSING)
            /\ ctl[s].call.default # MISSING =>
                  ctl[s].val["default"] = ctl[s].call.default

\* the declared type has None among its values
RECURSIVE AdmitsNone(_)
AdmitsNone(type_) ==
    CASE type_ = NoneType -> TRUE
      [] type_.k = "Union" ->
            \E i \in DOMAIN type_.args : AdmitsNone(type_.args[i])
      [] type_.k = "Literal" ->
            \E i \in DOMAIN type_.args : type_.args[i] = None
      [] type_.k = "Annotated" -> AdmitsNone(type_.base)
      [] OTHER -> FALSE

ContainerHandlers ==
    {"get_dict_schema", "get_list_schema", "get_tuple_schema", "get_set_schema"}

\* a dict, list, tuple or set without type arguments has just been compiled
BareContainer(s) ==
    /\ ctl[s].op = "ret" /\ ctl[s].by \in ContainerHandlers
    /\ ctl[s].call.type.args = << >>

\* a tuple[X, ...] has just been compiled
VariadicTuple(s) ==
    Returned(s, "get_tuple_schema") /\ IsVariadic(ctl[s].call.type.args)

\* C15 as stated: a container without type arguments has none of items,
\* additionalProperties and prefixItems, and a tuple[X, ...] has items and
\* none of prefixItems, minItems and maxItems.
C15_Stated ==
    \A s \in Sessions :
        /\ BareContainer(s) =>
              DOMAIN ctl[s].val
                \cap {"items", "additionalProperties", "prefixItems"} = {}
        /\ VariadicTuple(s) =>
              /\ "items" \in DOMAIN ctl[s].val
              /\ DOMAIN ctl[s].val
                    \cap {"prefixItems", "minItems", "maxItems"} = {}

\* C15, amended: a container without type arguments has none of items,
\* additionalProperties and prefixItems whatever metadata comes with it; a
\* tuple[X, ...] has items and no prefixItems, and has minItems or maxItems
\* only when its metadata sets min_items or max_items, with that value.
C15_Unconstrained ==
    \A s \in Sessions :
        /\ BareContainer(s) =>
              DOMAIN ctl[s].val
                \cap {"items", "additionalProperties", "prefixItems"} = {}
        /\ VariadicTuple(s) =>
              LET meta == AnnotationSchema(ctl[s].call.annotation)
              IN  /\ "items" \in DOMAIN ctl[s].val
                  /\ "prefixItems" \notin DOMAIN ctl[s].val
                  /\ \A k \in {"minItems", "maxItems"} :
                        k \in DOMAIN ctl[s].val =>
                            k \in DOMAIN meta /\ ctl[s].val[k] = meta[k]

\* a bare dict with metadata, and tuple[int, ...] without metadata
C15_Witness ==
    \E s, t \in Sessions :
        /\ BareContainer(s) /\ ctl[s].by = "get_dict_schema"
        /\ ctl[s].val = ("type" :> PyStr("object")) @@ ("minItems" :> PyInt(1))
        /\ VariadicTuple(t)
        /\ ctl[t].val =
              ("type" :> PyStr("array")) @@ ("items" :> ("type" :> PyStr("integer")))

\* C16: for every assignment of keyword values, SchemaAnnotation(...)
\* .schema() and the decoded annotation(...) either both accept the
\* keywords or both reject them, and when they accept they give the same
\* mapping, under the JSON Schema key names and without the keys whose
\* value is None.
C16_Equivalent ==
    (built.typed # Pending /\ built.legacy # Pending) =>
        /\ built.typed = built.legacy
        /\ built.typed.st = "made" =>
              \A jk \in DOMAIN built.typed.schema :
                  built.typed.schema[jk] # None

\* the handlers of plain classes in the order get_field_schema tests for
\* them, and the test of each
Priority ==
    << "get_none_schema", "get_str_schema", "get_bool_schema",
       "get_int_schema", "get_number_schema", "get_enum_schema",
       "get_datetime_schema", "get_date_schema" >>

Matches(type_, handler) ==
    CASE handler = "get_none_schema" -> type_ = NoneType
      [] handler = "get_str_schema" -> type_ = str
      [] handler = "get_bool_schema" -> type_ = Cls("bool")
      [] handler = "get_int_schema" -> type_ = int
      [] handler = "get_number_schema" -> IsSubclass(type_, "Number")
      [] handler = "get_enum_schema" -> IsSubclass(type_, "Enum")
      [] handler = "get_datetime_schema" -> IsSubclass(type_, "datetime")
      [] handler = "get_date_schema" -> IsSubclass(type_, "date")

\* C17: the handler that compiles a class is the first, in the order of
\* get_field_schema, whose test the class passes: bool compiles to type
\* boolean, datetime to format date-time, and an enum class that is also a
\* number to a fragment of type number, without a reference and without an
\* entry in the registry.
C17_FirstMatch ==
    \A s \in Sessions :
        /\ \A i \in DOMAIN Priority :
              Returned(s, Priority[i]) =>
                  /\ Matches(ctl[s].call.type, Priority[i])
                  /\ \A j \in 1..(i - 1) :
                        ~Matches(ctl[s].call.type, Priority[j])
        /\ (ctl[s].op = "ret" /\ ctl[s].call.type = Cls("bool")) =>
              ctl[s].val["type"] = PyStr("boolean")
        /\ (ctl[s].op = "ret" /\ ctl[s].call.type = Cls("datetime")) =>
              /\ ctl[s].val["type"] = PyStr("string")
              /\ ctl[s].val["format"] = PyStr("date-time")
        /\ (ctl[s].op = "ret" /\ ctl[s].call.type = Cls("Level")) =>
              /\ ctl[s].val["type"] = PyStr("number")
              /\ "allOf" \notin DOMAIN ctl[s].val
        /\ "Level" \notin DOMAIN defs[s]
        /\ (pc[s] = "done" /\ Arg(s) = "DcLevel") =>
              "$defs" \notin DOMAIN result[s]

\* Level, an enum class with int members, compiled by get_number_schema,
\* and datetime compiled by get_datetime_schema
C17_Witness ==
    \E s, t \in Sessions :
        /\ Returned(s, "get_number_schema")
        /\ ctl[s].call.type = Cls("Level")
        /\ ctl[s].val = ("type" :> PyStr("number"))
        /\ Matches(Cls("Level"), "get_enum_schema")
        /\ Returned(t, "get_datetime_schema")
        /\ ctl[t].call.type = Cls("datetime")
        /\ Matches(Cls("datetime"), "get_date_schema")

\* the targets of the $ref keys of a fragment, at any depth
RECURSIVE Refs(_)
Refs(fragment) ==
    LET keys == DOMAIN fragment
        In(k) == IF k \in keys THEN Refs(fragment[k]) ELSE {}
        Each(k) == IF k \in keys
                   THEN UNION {Refs(fragment[k][i]) : i \in DOMAIN fragment[k]}
                   ELSE {}
    IN  (IF "$ref" \in keys THEN {fragment["$ref"].s} ELSE {})
          \cup In("items") \cup In("additionalProperties")
          \cup Each("allOf") \cup Each("anyOf") \cup Each("prefixItems")
          \cup Each("properties") \cup Each("$defs")

DefsTargets(names) == {"#/$defs/" \o n : n \in names}

\* C18: every "#/$defs/<name>" reference of a returned document, in the
\* root fragment or in a $defs entry, has <name> among the keys of $defs,
\* and a "#" reference stands in a document whose root is an object
\* fragment; every fragment a handler returns, and every entry of the
\* registry, refers only to names the registry holds at that moment.
C18_Integrity ==
    \A s \in Sessions :
        /\ pc[s] = "done" =>
              /\ Refs(result[s]) \subseteq
                    {"#"} \cup DefsTargets(DefsOf(result[s]))
              /\ "#" \in Refs(result[s]) =>
                    /\ result[s]["type"] = PyStr("object")
                    /\ "properties" \in DOMAIN result[s]
        /\ ctl[s].op = "ret" =>
              Refs(ctl[s].val) \subseteq {"#"} \cup DefsTargets(DOMAIN defs[s])
        /\ \A n \in DOMAIN defs[s] :
              Refs(defs[s][n]) \subseteq {"#"} \cup DefsTargets(DOMAIN defs[s])

\* the document of DcAnnotatedAuthor: its $defs entry DcAnnotatedBook
\* refers back to the root, the root refers to DcAnnotatedBook and Hobby
C18_Witness ==
    \E s \in Sessions :
        /\ pc[s] = "done"
        /\ Arg(s) = "DcAnnotatedAuthor"
        /\ "#" \in Refs(result[s]["$defs"]["DcAnnotatedBook"])
        /\ Refs(result[s]["properties"]["books"]) = {"#/$defs/DcAnnotatedBook"}
        /\ Refs(result[s]["properties"]["hobby"]) = {"#/$defs/Hobby"}
        /\ DefsOf(result[s]) = {"DcAnnotatedBook", "Hobby"}

\* two classes of one __name__ are in the type graph of the call
Colliding(s) == pc[s] # "idle" /\ Arg(s) \in {"DcShelf", "DcTagged"}

\* C19: within one call the registry only grows: a name that has an entry
\* keeps that entry (no step of the call removes or replaces it), also
\* when two dataclasses, or a dataclass and an enum class, have the same
\* name and one is a field of the other; and such a call raises nothing.
C19_NeverReplaced ==
    /\ [](\A s \in Sessions : Colliding(s) => pc[s] # "error")
    /\ [][\A s \in Sessions :
            \A n \in DOMAIN defs[s] :
                n \in DOMAIN defs'[s] /\ defs'[s][n] = defs[s][n]]_vars

====
